---------------------------- MODULE Spec2Model ----------------------------
(***************************************************************************)
(* cctimesheet: ingestion of JSONL activity logs into a message store      *)
(* (parse_claude_messages.py) and the timesheet aggregator / reporter      *)
(* (src/cctimesheet/generator.py, generate_timesheet.py).                  *)
(*                                                                         *)
(* Text is modelled as a sequence of one-character strings, so that the    *)
(* string rewrites of clean_project_name, lower-casing and glob matching   *)
(* are computed character by character.  A datetime is a record            *)
(* [day, hour, minute, second, microsecond] where day is a calendar        *)
(* ordinal; its '%Y-%m-%d' text is the zero-padded triple <<y, m, d>>,     *)
(* compared as Python compares the strings (field by field).               *)
(***************************************************************************)
EXTENDS Integers, Sequences, FiniteSets, TLC

VARIABLES
    store,      \* committed rows of the messages table, in rowid order
    txn,        \* rows inserted on the open connection and not yet committed
    conn,       \* "none" | "open" | "closed": the running command's store connection
    pc,         \* position of the running command
    todo,       \* ingestion: number of source files still to be processed
    cur,        \* ingestion: the file being parsed [id, path] and the line just read
    pos,        \* ingestion: line_num, the number of lines of cur read so far
    count,      \* ingestion: parse_jsonl_file's local counter
    reported,   \* ingestion: sequence of [file, count] returned and printed so far
    diag,       \* diagnostic channel (stderr): [warnings, errors] written so far
    messages,   \* aggregator: the list of rows handed to group_by_15min_chunks
    opts,       \* aggregator/reporter: [project_filter, exclude_filter, group_time]
    activity,   \* aggregator: the activity map returned (insertion-ordered)
    clock,      \* reporter: [arg, now, since_date] of the last report
    result,     \* reporter: what generate_timesheet returned (or raised)
    queries,    \* reporter: number of store queries the report commands made
    printed,    \* reporter: [status, out] of generate_timesheet.py's main
    baseline,   \* reporter: [activity, result, runs] of the report kept for comparison
    source      \* re-ingestion: [path, lines] of the source file ingested repeatedly

vars == <<store, txn, conn, pc, todo, cur, pos, count, reported, diag,
          messages, opts, activity, clock, result, queries, printed, baseline, source>>

ingestVars == <<store, txn, conn, todo, cur, pos, count, reported>>
reportVars == <<messages, opts, activity, clock, result, queries, printed, baseline, source>>

\* Optional[str]: None, or Some(text)
None == [given |-> FALSE, text |-> <<>>]
Some(s) == [given |-> TRUE, text |-> s]

(***************************************************************************)
(* Bounds of the model.                                                    *)
(***************************************************************************)
MaxMsgs == 3
MaxRows == 3
MaxLines == 3
MaxFiles == 2
MaxRuns == 2

(***************************************************************************)
(* Text helpers.                                                           *)
(***************************************************************************)
UpperChars == <<"A","B","C","D","E","F","G","H","I","J","K","L","M",
                "N","O","P","Q","R","S","T","U","V","W","X","Y","Z">>
LowerChars == <<"a","b","c","d","e","f","g","h","i","j","k","l","m",
                "n","o","p","q","r","s","t","u","v","w","x","y","z">>

\* str.lower() on one character
LowerChar(c) ==
    IF \E i \in 1..Len(UpperChars) : UpperChars[i] = c
    THEN LowerChars[CHOOSE i \in 1..Len(UpperChars) : UpperChars[i] = c]
    ELSE c

\* str.lower()
Lower(s) == [i \in 1..Len(s) |-> LowerChar(s[i])]

\* s.startswith(p)
StartsWith(s, p) == Len(s) >= Len(p) /\ SubSeq(s, 1, Len(p)) = p

\* s.replace(old, new): every non-overlapping occurrence, left to right
RECURSIVE Replace(_, _, _)
Replace(s, old, new) ==
    IF Len(s) < Len(old) THEN s
    ELSE IF StartsWith(s, old)
         THEN new \o Replace(SubSeq(s, Len(old) + 1, Len(s)), old, new)
         ELSE <<Head(s)>> \o Replace(Tail(s), old, new)

\* fnmatch.fnmatchcase(name, pat) for patterns of literals, '*' and '?'
RECURSIVE FnMatchCase(_, _)
FnMatchCase(name, pat) ==
    IF pat = <<>> THEN name = <<>>
    ELSE IF Head(pat) = "*"
         THEN FnMatchCase(name, Tail(pat))
              \/ (name # <<>> /\ FnMatchCase(Tail(name), pat))
         ELSE /\ name # <<>>
              /\ (Head(pat) = "?" \/ Head(pat) = Head(name))
              /\ FnMatchCase(Tail(name), Tail(pat))

\* fnmatch.fnmatch(name, pat): os.path.normcase is the identity on POSIX
FnMatch(name, pat) == FnMatchCase(name, pat)

\* Python truthiness of an Optional[str] argument
Truthy(s) == s.given /\ s.text # <<>>

(***************************************************************************)
(* Project names.                                                          *)
(***************************************************************************)
PrefixCode == <<"-","U","s","e","r","s","-","p","d","e","n","y","a","-",
                "C","o","d","e","-">>
PrefixHome == <<"-","U","s","e","r","s","-","p","d","e","n","y","a","-">>

RawApi == <<"-","U","s","e","r","s","-","p","d","e","n","y","a","-",
            "C","o","d","e","-","m","y","p","r","o","j","-","a","p","i">>
RawNotes == <<"-","U","s","e","r","s","-","p","d","e","n","y","a","-",
              "n","o","t","e","s">>
\* the same directory name without the leading separator
RawNotesBare == <<"U","s","e","r","s","-","p","d","e","n","y","a","-",
                  "n","o","t","e","s">>

RawNames == {RawApi, RawNotes, RawNotesBare}

clean_project_name(project_name) ==
    LET p0 == IF StartsWith(project_name, <<"-">>)
              THEN Tail(project_name) ELSE project_name
        p1 == Replace(p0, PrefixCode, <<>>)
        p2 == Replace(p1, PrefixHome, <<"~", "/">>)
    IN  Replace(p2, <<"-">>, <<"/">>)

\* clean_project_name on the raw identifiers of the model, computed once
DisplayName == [raw \in RawNames |-> clean_project_name(raw)]
DisplayNames == {DisplayName[raw] : raw \in RawNames}

(***************************************************************************)
(* Calendar and timestamps.                                                *)
(***************************************************************************)
\* calendar ordinal |-> <<year, month, day>>: 24 Dec 2025 .. 4 Jan 2026
Calendar == << <<2025,12,24>>, <<2025,12,25>>, <<2025,12,26>>, <<2025,12,27>>,
               <<2025,12,28>>, <<2025,12,29>>, <<2025,12,30>>, <<2025,12,31>>,
               <<2026,1,1>>,   <<2026,1,2>>,   <<2026,1,3>>,   <<2026,1,4>> >>

\* dt.strftime('%Y-%m-%d'): the zero-padded fields, compared as text
StrfDate(dt) == Calendar[dt.day]

\* comparison of two '%Y-%m-%d' texts (fixed width, so field by field)
DateStrLess(a, b) ==
    \/ a[1] < b[1]
    \/ a[1] = b[1] /\ a[2] < b[2]
    \/ a[1] = b[1] /\ a[2] = b[2] /\ a[3] < b[3]

\* datetime(y, m, d): midnight of a calendar day
Midnight(d) == [day |-> d, hour |-> 0, minute |-> 0, second |-> 0, microsecond |-> 0]

\* an ISO-8601 timestamp text, by its fields and zone marker
Iso(d, h, m, s, us, z) ==
    [kind |-> "iso", day |-> d, hour |-> h, minute |-> m, second |-> s,
     microsecond |-> us, zone |-> z]

TsA == Iso(9, 10, 7, 30, 500000, "Z")
TsB == Iso(9, 10, 14, 59, 0, "")
TsC == Iso(9, 10, 15, 0, 0, "Z")
TsD == Iso(8, 23, 59, 59, 0, "+05:00")
\* a stored text that datetime.fromisoformat rejects
TsBad == [kind |-> "bad", text |-> "not-a-date"]

Timestamps == {TsA, TsB, TsC, TsD, TsBad}

Failure == [kind |-> "ValueError"]

\* datetime.fromisoformat(timestamp_str.replace('Z', '+00:00')).replace(tzinfo=None)
ParseTimestamp(ts) ==
    IF ts.kind = "iso"
    THEN [day |-> ts.day, hour |-> ts.hour, minute |-> ts.minute,
          second |-> ts.second, microsecond |-> ts.microsecond]
    ELSE Failure

\* a variant that keeps the seconds
round_to_15min_keep_seconds(dt) ==
    [dt EXCEPT !.minute = (dt.minute \div 15) * 15]

round_to_15min(dt) ==
    [dt EXCEPT !.minute = (dt.minute \div 15) * 15,
               !.second = 0, !.microsecond = 0]


(***************************************************************************)
(* Insertion-ordered maps (Python dict / defaultdict), as sequences of     *)
(* entries.  An activity map is a sequence of [date, projects], projects a *)
(* sequence of [project, blocks].                                          *)
(***************************************************************************)
HasDate(act, d) == \E i \in 1..Len(act) : act[i].date = d
DateIndex(act, d) == CHOOSE i \in 1..Len(act) : act[i].date = d
HasProject(projects, p) == \E j \in 1..Len(projects) : projects[j].project = p
ProjectIndex(projects, p) == CHOOSE j \in 1..Len(projects) : projects[j].project = p

\* projects[project].add(block) on a defaultdict(set)
AddToProjects(projects, p, b) ==
    IF HasProject(projects, p)
    THEN [projects EXCEPT ![ProjectIndex(projects, p)].blocks = @ \cup {b}]
    ELSE Append(projects, [project |-> p, blocks |-> {b}])

\* all_activity[date_str][project].add(block)
AddBlock(act, d, p, b) ==
    IF HasDate(act, d)
    THEN [act EXCEPT ![DateIndex(act, d)].projects = AddToProjects(@, p, b)]
    ELSE Append(act, [date |-> d, projects |-> <<[project |-> p, blocks |-> {b}]>>])

\* activity[date_str][project] = blocks
SetProject(act, d, p, blocks) ==
    IF HasDate(act, d)
    THEN [act EXCEPT ![DateIndex(act, d)].projects =
              IF HasProject(@, p)
              THEN [@ EXCEPT ![ProjectIndex(@, p)].blocks = blocks]
              ELSE Append(@, [project |-> p, blocks |-> blocks])]
    ELSE Append(act, [date |-> d, projects |-> <<[project |-> p, blocks |-> blocks]>>])

(***************************************************************************)
(* group_by_15min_chunks, first pass: bucketing.                           *)
(***************************************************************************)
\* one iteration of the loop over messages; a row whose timestamp does not
\* parse raises inside the try, is warned about and skipped
BucketRow(all_activity, msg) ==
    IF ParseTimestamp(msg.timestamp) = Failure
    THEN all_activity
    ELSE LET dt == ParseTimestamp(msg.timestamp)
             block == round_to_15min(dt)
             date_str == StrfDate(dt)
             project == DisplayName[msg.project_name]
         IN  AddBlock(all_activity, date_str, project, block)

RECURSIVE BucketPass(_, _)
BucketPass(all_activity, msgs) ==
    IF msgs = <<>> THEN all_activity
    ELSE BucketPass(BucketRow(all_activity, Head(msgs)), Tail(msgs))

(***************************************************************************)
(* Second pass: include / exclude filters on the display name.             *)
(***************************************************************************)
\* a variant that matches the display name as it is against the lower-cased pattern
PassesFiltersCaseSensitive(project, project_filter, exclude_filter) ==
    /\ ~(Truthy(project_filter) /\ ~FnMatch(project, Lower(project_filter.text)))
    /\ ~(Truthy(exclude_filter) /\ FnMatch(project, Lower(exclude_filter.text)))

\* the two 'continue' guards of the filter loop, negated
PassesFilters(project, project_filter, exclude_filter) ==
    /\ ~(Truthy(project_filter)
         /\ ~FnMatch(Lower(project), Lower(project_filter.text)))
    /\ ~(Truthy(exclude_filter)
         /\ FnMatch(Lower(project), Lower(exclude_filter.text)))

PatUsers == <<"U","S","E","R","S","/","*">>
PatNotes == <<"*","N","o","t","e","s">>
PatNotesUpper == <<"*","N","O","T","E","S">>
PatCode == <<"?","s","e","r","s","/","*","/","c","o","d","e","/","*">>

\* the (include, exclude) pairs tried
FilterPairs == { <<None, None>>, <<Some(PatNotes), None>>,
                 <<None, Some(PatNotesUpper)>>, <<Some(PatUsers), Some(PatCode)>>,
                 <<Some(PatNotes), Some(PatNotesUpper)>>, <<Some(PatCode), None>>,
                 <<Some(<<>>), Some(<<>>)>> }

\* PassesFilters on the display names and filter pairs of the model, computed once
Passes == [p \in DisplayNames, fp \in FilterPairs |-> PassesFilters(p, fp[1], fp[2])]

RECURSIVE FilterProjects(_, _, _, _, _)
FilterProjects(act, d, projects, pf, ef) ==
    IF projects = <<>> THEN act
    ELSE LET e == Head(projects)
             act2 == IF Passes[e.project, <<pf, ef>>]
                     THEN SetProject(act, d, e.project, e.blocks)
                     ELSE act
         IN  FilterProjects(act2, d, Tail(projects), pf, ef)

RECURSIVE FilterPass(_, _, _, _)
FilterPass(act, all_activity, pf, ef) ==
    IF all_activity = <<>> THEN act
    ELSE FilterPass(FilterProjects(act, Head(all_activity).date,
                                   Head(all_activity).projects, pf, ef),
                    Tail(all_activity), pf, ef)

(***************************************************************************)
(* Third pass: merge mode.                                                 *)
(***************************************************************************)
\* the characters of the model in code-point order
CodePoints == <<" ", "*", ",", "-", "/", ":", "?">> \o UpperChars \o LowerChars
              \o <<"~">>
Ord(c) == CHOOSE i \in 1..Len(CodePoints) : CodePoints[i] = c

\* a < b on Python strings
RECURSIVE StrLess(_, _)
StrLess(a, b) ==
    IF b = <<>> THEN FALSE
    ELSE IF a = <<>> THEN TRUE
    ELSE IF Head(a) = Head(b) THEN StrLess(Tail(a), Tail(b))
    ELSE Ord(Head(a)) < Ord(Head(b))

\* insertion of x into an ascending list after its equals
RECURSIVE InsertStr(_, _)
InsertStr(sorted, x) ==
    IF sorted = <<>> THEN <<x>>
    ELSE IF StrLess(x, Head(sorted)) THEN <<x>> \o sorted
    ELSE <<Head(sorted)>> \o InsertStr(Tail(sorted), x)

\* sorted(project_names)
RECURSIVE SortedStrs(_)
SortedStrs(names) ==
    IF names = <<>> THEN <<>>
    ELSE InsertStr(SortedStrs(SubSeq(names, 1, Len(names) - 1)), names[Len(names)])

\* ", ".join(names)
RECURSIVE Join(_)
Join(names) ==
    IF names = <<>> THEN <<>>
    ELSE IF Len(names) = 1 THEN names[1]
    ELSE names[1] \o <<",", " ">> \o Join(Tail(names))

CombinedPrefix == <<"C","o","m","b","i","n","e","d",":"," ">>

ProjectNames(projects) == [j \in 1..Len(projects) |-> projects[j].project]

\* a variant that joins the names in insertion order
CombinedNameUnsorted(projects) == CombinedPrefix \o Join(ProjectNames(projects))

CombinedName(projects) == CombinedPrefix \o Join(SortedStrs(ProjectNames(projects)))

AllBlocks(projects) == UNION {projects[j].blocks : j \in 1..Len(projects)}

MergeDay(entry) ==
    [date |-> entry.date,
     projects |-> <<[project |-> CombinedName(entry.projects),
                     blocks |-> AllBlocks(entry.projects)]>>]

MergePass(act) == [i \in 1..Len(act) |-> MergeDay(act[i])]

group_by_15min_chunks(msgs, project_filter, exclude_filter, group_time) ==
    LET all_activity == BucketPass(<<>>, msgs)
        act == FilterPass(<<>>, all_activity, project_filter, exclude_filter)
    IN  IF group_time /\ act # <<>> THEN MergePass(act) ELSE act

\* len(time_blocks) * 0.25, in hundredths of an hour
calculate_hours(time_blocks) == Cardinality(time_blocks) * 25


(***************************************************************************)
(* Specification SpecGroup: group_by_15min_chunks applied to any list of   *)
(* rows of at most MaxMsgs entries, under any of the filter options.       *)
(***************************************************************************)
SeqUpTo(S, n) == UNION {[1..k -> S] : k \in 0..n}

Row(ts, raw) == [timestamp |-> ts, session_id |-> "s1", project_name |-> raw]
\* every readable timestamp with every raw identifier, and one unreadable row
Rows == {Row(ts, raw) : ts \in Timestamps \ {TsBad}, raw \in RawNames}
        \cup {Row(TsBad, RawNotes)}

Options == {[project_filter |-> fp[1], exclude_filter |-> fp[2], group_time |-> g]
            : fp \in FilterPairs, g \in BOOLEAN}

NoOptions == [project_filter |-> None, exclude_filter |-> None, group_time |-> FALSE]
NoFile == [id |-> 0, path |-> <<>>, line |-> [kind |-> "none"]]
NoDiag == [warnings |-> 0, errors |-> 0]
NoClock == [arg |-> None, now |-> Midnight(0), since_date |-> Midnight(0)]
NoResult == [kind |-> "none"]
NoPrinted == [status |-> "running", out |-> <<>>]
NoBaseline == [activity |-> <<>>, result |-> NoResult, runs |-> 0]
NoSource == [path |-> <<>>, lines |-> <<>>]
ReportIdle ==
    queries = 0 /\ printed = NoPrinted /\ baseline = NoBaseline /\ source = NoSource

IngestIdle ==
    /\ store = <<>> /\ txn = <<>> /\ conn = "none" /\ todo = 0
    /\ cur = NoFile /\ pos = 0 /\ count = 0 /\ reported = <<>>

InitGroup ==
    /\ IngestIdle
    /\ diag = NoDiag
    /\ pc = "call"
    /\ messages \in SeqUpTo(Rows, MaxMsgs)
    /\ opts = NoOptions
    /\ activity = <<>>
    /\ clock = NoClock
    /\ result = NoResult
    /\ ReportIdle

\* activity = group_by_15min_chunks(messages, project_filter, exclude_filter, group_time)
Group ==
    /\ pc = "call"
    /\ \E o \in Options :
          /\ opts' = o
          /\ activity' = group_by_15min_chunks(messages, o.project_filter,
                                               o.exclude_filter, o.group_time)
    /\ pc' = "grouped"
    /\ UNCHANGED <<ingestVars, diag, messages, clock, result, queries, printed, baseline, source>>

NextGroup == Group

SpecGroup == InitGroup /\ [][NextGroup]_vars


(***************************************************************************)
(* Reporter: format_timesheet.                                             *)
(***************************************************************************)
SecondsOf(dt) == ((dt.day * 24 + dt.hour) * 60 + dt.minute) * 60 + dt.second

\* (now - since_date).days: whole days of the difference, rounded down
DaysBetween(now, since_date) ==
    (SecondsOf(now) - SecondsOf(since_date)
       - (IF now.microsecond < since_date.microsecond THEN 1 ELSE 0)) \div 86400

\* a variant that counts a started day as a day
range_kind_rounding_up(now, since_date) ==
    LET secs == SecondsOf(now) - SecondsOf(since_date)
        up == (secs + 86399) \div 86400
    IN  IF up <= 1 THEN [kind |-> "TODAY", days |-> 0, date |-> <<0, 0, 0>>]
        ELSE IF up <= 7 THEN [kind |-> "LAST N DAYS", days |-> up, date |-> <<0, 0, 0>>]
        ELSE [kind |-> "SINCE", days |-> 0, date |-> Calendar[since_date.day]]

\* "TODAY" | "LAST {days_ago} DAYS" | "SINCE {since_date:%B %d, %Y}"
range_kind(now, since_date) ==
    LET days_ago == DaysBetween(now, since_date)
    IN  IF days_ago <= 1 THEN [kind |-> "TODAY", days |-> 0, date |-> <<0, 0, 0>>]
        ELSE IF days_ago <= 7
             THEN [kind |-> "LAST N DAYS", days |-> days_ago, date |-> <<0, 0, 0>>]
        ELSE [kind |-> "SINCE", days |-> 0, date |-> Calendar[since_date.day]]

\* " - FILTER: p", " - EXCLUDE: e", " - GROUPED TIME", each if set
header_suffixes(project_filter, exclude_filter, group_time) ==
    (IF Truthy(project_filter)
        THEN <<[label |-> "FILTER", text |-> project_filter.text]>> ELSE <<>>)
    \o (IF Truthy(exclude_filter)
        THEN <<[label |-> "EXCLUDE", text |-> exclude_filter.text]>> ELSE <<>>)
    \o (IF group_time THEN <<[label |-> "GROUPED TIME", text |-> <<>>]>> ELSE <<>>)

\* insertion of a date text into a descending list
RECURSIVE InsertDateDesc(_, _)
InsertDateDesc(sorted, d) ==
    IF sorted = <<>> THEN <<d>>
    ELSE IF DateStrLess(Head(sorted), d) THEN <<d>> \o sorted
    ELSE <<Head(sorted)>> \o InsertDateDesc(Tail(sorted), d)

\* sorted(activity.keys(), reverse=True)
RECURSIVE SortedDatesDesc(_)
SortedDatesDesc(keys) ==
    IF keys = <<>> THEN <<>>
    ELSE InsertDateDesc(SortedDatesDesc(SubSeq(keys, 1, Len(keys) - 1)), keys[Len(keys)])

\* a variant that places an entry before the entries of equal hours
RECURSIVE InsertByHoursBeforeEquals(_, _)
InsertByHoursBeforeEquals(sorted, x) ==
    IF sorted = <<>> THEN <<x>>
    ELSE IF Head(sorted).hours <= x.hours THEN <<x>> \o sorted
    ELSE <<Head(sorted)>> \o InsertByHoursBeforeEquals(Tail(sorted), x)

\* insertion into a list of descending hours, after the entries of equal hours
RECURSIVE InsertByHours(_, _)
InsertByHours(sorted, x) ==
    IF sorted = <<>> THEN <<x>>
    ELSE IF Head(sorted).hours < x.hours THEN <<x>> \o sorted
    ELSE <<Head(sorted)>> \o InsertByHours(Tail(sorted), x)

\* project_hours.sort(key=lambda x: x[1], reverse=True): a stable sort
RECURSIVE SortByHoursDesc(_)
SortByHoursDesc(project_hours) ==
    IF project_hours = <<>> THEN <<>>
    ELSE InsertByHours(SortByHoursDesc(SubSeq(project_hours, 1, Len(project_hours) - 1)),
                       project_hours[Len(project_hours)])

RECURSIVE SumHours(_)
SumHours(lines) == IF lines = <<>> THEN 0 ELSE Head(lines).hours + SumHours(Tail(lines))

RECURSIVE SumTotals(_)
SumTotals(sections) ==
    IF sections = <<>> THEN 0 ELSE Head(sections).day_total + SumTotals(Tail(sections))

\* one day section: the project lines and the daily total
DaySection(act, date_str) ==
    LET projects == act[DateIndex(act, date_str)].projects
        project_hours == [j \in 1..Len(projects) |->
                            [project |-> projects[j].project,
                             hours |-> calculate_hours(projects[j].blocks)]]
        lines == SortByHoursDesc(project_hours)
    IN  [date |-> date_str, lines |-> lines, day_total |-> SumHours(lines)]

format_timesheet(act, since_date, project_filter, exclude_filter, group_time, now) ==
    LET sorted_dates == SortedDatesDesc([i \in 1..Len(act) |-> act[i].date])
        sections == [i \in 1..Len(sorted_dates) |-> DaySection(act, sorted_dates[i])]
    IN  [kind |-> "report",
         range |-> range_kind(now, since_date),
         suffixes |-> header_suffixes(project_filter, exclude_filter, group_time),
         sections |-> sections,
         grand_total |-> SumTotals(sections)]

(***************************************************************************)
(* Cutoff argument: parse_date_arg.                                        *)
(***************************************************************************)
DigitChars == <<"0","1","2","3","4","5","6","7","8","9">>
IsDigit(c) == \E i \in 1..Len(DigitChars) : DigitChars[i] = c
DigitVal(c) == (CHOOSE i \in 1..Len(DigitChars) : DigitChars[i] = c) - 1
AllDigits(t) == t # <<>> /\ \A i \in 1..Len(t) : IsDigit(t[i])

RECURSIVE Num(_)
Num(t) == IF t = <<>> THEN 0 ELSE Num(SubSeq(t, 1, Len(t) - 1)) * 10 + DigitVal(t[Len(t)])

\* the %m alternatives 1[0-2] | 0[1-9] | [1-9] on a text of one or two characters
MonthText(t) ==
    /\ AllDigits(t)
    /\ IF Len(t) = 2 THEN \/ t[1] = "1" /\ DigitVal(t[2]) <= 2
                          \/ t[1] = "0" /\ DigitVal(t[2]) >= 1
       ELSE DigitVal(t[1]) >= 1

\* the %d alternatives 3[01] | [12]\d | 0[1-9] | [1-9]
DayText(t) ==
    /\ AllDigits(t)
    /\ IF Len(t) = 2 THEN \/ t[1] = "3" /\ DigitVal(t[2]) <= 1
                          \/ t[1] \in {"1", "2"}
                          \/ t[1] = "0" /\ DigitVal(t[2]) >= 1
       ELSE DigitVal(t[1]) >= 1

\* the field widths (month, day) in the order the pattern tries them
YmdSplits == << <<2, 2>>, <<2, 1>>, <<1, 2>>, <<1, 1>> >>

YmdSplitFits(arg, sp) ==
    /\ Len(arg) >= 4 + sp[1] + sp[2]
    /\ AllDigits(SubSeq(arg, 1, 4))
    /\ MonthText(SubSeq(arg, 5, 4 + sp[1]))
    /\ DayText(SubSeq(arg, 5 + sp[1], 4 + sp[1] + sp[2]))

NotParsed == [ok |-> FALSE, dt |-> [day |-> 0, hour |-> 0, minute |-> 0,
                                    second |-> 0, microsecond |-> 0]]

\* datetime.strptime(arg, '%Y%m%d'): the first split the pattern matches, which
\* must use up the text and name a date of the calendar
StrptimeYmd(arg) ==
    IF ~\E k \in 1..Len(YmdSplits) : YmdSplitFits(arg, YmdSplits[k]) THEN NotParsed
    ELSE LET k == CHOOSE n \in 1..Len(YmdSplits) :
                     /\ YmdSplitFits(arg, YmdSplits[n])
                     /\ \A j \in 1..(n - 1) : ~YmdSplitFits(arg, YmdSplits[j])
             sp == YmdSplits[k]
             ymd == <<Num(SubSeq(arg, 1, 4)), Num(SubSeq(arg, 5, 4 + sp[1])),
                      Num(SubSeq(arg, 5 + sp[1], 4 + sp[1] + sp[2]))>>
         IN  IF Len(arg) # 4 + sp[1] + sp[2] THEN NotParsed
             ELSE IF ~\E d \in 1..Len(Calendar) : Calendar[d] = ymd THEN NotParsed
             ELSE [ok |-> TRUE,
                   dt |-> Midnight(CHOOSE d \in 1..Len(Calendar) : Calendar[d] = ymd)]

\* datetime.now() - timedelta(days=days)
DaysAgo(now, days) == [now EXCEPT !.day = @ - days]

parse_date_arg(arg, now) ==
    IF StrptimeYmd(arg).ok THEN StrptimeYmd(arg)
    ELSE IF AllDigits(arg) THEN [ok |-> TRUE, dt |-> DaysAgo(now, Num(arg))]
    ELSE NotParsed

(***************************************************************************)
(* The store query: get_messages_since_date.                               *)
(***************************************************************************)
\* the first 19 characters of an ISO text, YYYY-MM-DDTHH:MM:SS, field by field
IsoPrefix(t) == Calendar[t.day] \o <<t.hour, t.minute, t.second>>

RECURSIVE TupleLess(_, _)
TupleLess(a, b) ==
    IF a = <<>> \/ b = <<>> THEN FALSE
    ELSE IF Head(a) = Head(b) THEN TupleLess(Tail(a), Tail(b))
    ELSE Head(a) < Head(b)

\* what follows the seconds: a fraction if any, then the zone marker; ranked by
\* its first character ('' < '+' < '.' < 'Z'), fractions by their digits
SuffixRank(t) ==
    IF t.microsecond # 0 THEN <<2, t.microsecond>>
    ELSE IF t.zone = "" THEN <<0, 0>>
    ELSE IF t.zone = "Z" THEN <<3, 0>>
    ELSE <<1, 0>>

\* a < b on the stored timestamp texts (SQLite's BINARY collation)
TextLess(a, b) ==
    IF a.kind = "bad" THEN FALSE
    ELSE IF b.kind = "bad" THEN TRUE
    ELSE \/ TupleLess(IsoPrefix(a), IsoPrefix(b))
         \/ IsoPrefix(a) = IsoPrefix(b) /\ TupleLess(SuffixRank(a), SuffixRank(b))

\* since_date.isoformat(), as a timestamp text without zone
IsoFormat(dt) == Iso(dt.day, dt.hour, dt.minute, dt.second, dt.microsecond, "")

\* the SELECT's three columns
Columns(r) == [timestamp |-> r.timestamp, session_id |-> r.session_id,
               project_name |-> r.project_name]

\* WHERE timestamp >= ?
AtOrAfter(r, since_date) == ~TextLess(r.timestamp, IsoFormat(since_date))

\* the rows of the table the WHERE clause keeps, in rowid order
RECURSIVE Selected(_, _)
Selected(table, since_date) ==
    IF table = <<>> THEN <<>>
    ELSE (IF AtOrAfter(Head(table), since_date) THEN <<Columns(Head(table))>> ELSE <<>>)
         \o Selected(Tail(table), since_date)

\* ORDER BY timestamp: row r may stand at place i of the ordered list t,
\* between a row that is not after it and a row that is not before it
FitsAt(t, r, i) ==
    /\ i > 1 => ~TextLess(r.timestamp, t[i - 1].timestamp)
    /\ i <= Len(t) => ~TextLess(t[i].timestamp, r.timestamp)

\* the lists that hold the given rows in ascending order of timestamp
RECURSIVE Arrangements(_)
Arrangements(rows) ==
    IF rows = <<>> THEN {<<>>}
    ELSE UNION {{SubSeq(t, 1, i - 1) \o <<Head(rows)>> \o SubSeq(t, i, Len(t)) :
                    i \in {j \in 1..(Len(t) + 1) : FitsAt(t, Head(rows), j)}}
                : t \in Arrangements(Tail(rows))}

\* the arrangements of the kept rows that ORDER BY timestamp allows: any order
\* of rows with the same text
QueryResults(table, since_date) == Arrangements(Selected(table, since_date))

(***************************************************************************)
(* generate_timesheet.                                                     *)
(***************************************************************************)
\* since_date: the default of seven days ago, or the parsed argument
ResolveCutoff(date_or_days, now) ==
    IF Truthy(date_or_days) THEN parse_date_arg(date_or_days.text, now)
    ELSE [ok |-> TRUE, dt |-> DaysAgo(now, 7)]

\* "No messages found since {since_date:%Y-%m-%d}."
NoMessagesSince(since_date) ==
    [kind |-> "message", text |-> "No messages found since",
     date |-> StrfDate(since_date), names |-> <<>>]

\* "No messages found matching filter 'p' and exclude 'e'." | "No messages found."
NoMessagesMatching(project_filter, exclude_filter) ==
    LET filter_msg ==
          (IF Truthy(project_filter)
              THEN <<[label |-> "filter", text |-> project_filter.text]>> ELSE <<>>)
          \o (IF Truthy(exclude_filter)
              THEN <<[label |-> "exclude", text |-> exclude_filter.text]>> ELSE <<>>)
    IN  [kind |-> "message",
         text |-> IF filter_msg # <<>> THEN "No messages found matching"
                  ELSE "No messages found.",
         date |-> <<0, 0, 0>>, names |-> filter_msg]

\* a variant without the check for an empty activity map
report_or_message_unchecked(msgs, act, since_date, o, now) ==
    IF msgs = <<>> THEN NoMessagesSince(since_date)
    ELSE format_timesheet(act, since_date, o.project_filter, o.exclude_filter,
                          o.group_time, now)

\* what generate_timesheet returns once the rows are fetched and, if there
\* are any, grouped into act
report_or_message(msgs, act, since_date, o, now) ==
    IF msgs = <<>> THEN NoMessagesSince(since_date)
    ELSE IF act = <<>> THEN NoMessagesMatching(o.project_filter, o.exclude_filter)
    ELSE format_timesheet(act, since_date, o.project_filter, o.exclude_filter,
                          o.group_time, now)

\* the body of generate_timesheet after the cutoff is resolved and the rows
\* are fetched: [activity, result]
generate_timesheet(msgs, since_date, o, now) ==
    LET act == IF msgs = <<>> THEN <<>>
               ELSE group_by_15min_chunks(msgs, o.project_filter,
                                          o.exclude_filter, o.group_time)
    IN  [activity |-> act, result |-> report_or_message(msgs, act, since_date, o, now)]

(***************************************************************************)
(* Specification SpecReport: generate_timesheet on any store of at most    *)
(* MaxRows rows.  Every read of the store is ordered by timestamp, so the  *)
(* stores are taken with their rows in (timestamp, project) order.         *)
(***************************************************************************)
\* 2 January 2026, 08:00:00
Now == [day |-> 10, hour |-> 8, minute |-> 0, second |-> 0, microsecond |-> 0]

DateArgs == {None,
             Some(<<"0">>), Some(<<"1">>),
             Some(<<"2","0","2","6","0","1","0","1">>),
             Some(<<"2","0","2","5","1","2","3","1">>),
             Some(<<"2","0","2","5","1","2","2","6">>),
             Some(<<"2","0","2","5","1","2","2","5">>),
             Some(<<"2","0","2","6","1","1">>),
             Some(<<"a","b","c">>)}

TsOrder == <<TsD, TsA, TsB, TsC, TsBad>>
NameOrder == <<RawApi, RawNotes, RawNotesBare>>
RowKey(r) == 3 * (CHOOSE i \in 1..Len(TsOrder) : TsOrder[i] = r.timestamp)
             + (CHOOSE j \in 1..Len(NameOrder) : NameOrder[j] = r.project_name)

\* the stored rows carry directory names, which start with a dash
Stores == {t \in SeqUpTo({r \in Rows : r.project_name # RawNotesBare}, MaxRows) :
             \A i \in 1..(Len(t) - 1) : RowKey(t[i]) <= RowKey(t[i + 1])}

InitReport ==
    /\ store \in Stores
    /\ txn = <<>> /\ conn = "none" /\ todo = 0
    /\ cur = NoFile /\ pos = 0 /\ count = 0 /\ reported = <<>>
    /\ diag = NoDiag
    /\ pc = "call"
    /\ messages = <<>>
    /\ opts = NoOptions
    /\ activity = <<>>
    /\ clock = NoClock
    /\ result = NoResult
    /\ ReportIdle

\* generate_timesheet(db_path, date_or_days, project_filter, exclude_filter, group_time)
GenerateTimesheet ==
    /\ pc = "call"
    /\ \E arg \in DateArgs :
          LET cutoff == ResolveCutoff(arg, Now) IN
          IF ~cutoff.ok
          THEN /\ \E o \in Options : opts' = o
               /\ clock' = [arg |-> arg, now |-> Now, since_date |-> cutoff.dt]
               /\ messages' = <<>>
               /\ activity' = <<>>
               /\ result' = [kind |-> "ValueError"]
               /\ queries' = queries
          ELSE \E msgs \in QueryResults(store, cutoff.dt) : \E o \in Options :
               \E out \in {generate_timesheet(msgs, cutoff.dt, o, Now)} :
               /\ opts' = o
               /\ clock' = [arg |-> arg, now |-> Now, since_date |-> cutoff.dt]
               /\ messages' = msgs
               /\ activity' = out.activity
               /\ result' = out.result
               /\ queries' = queries + 1
    /\ conn' = "closed"
    /\ pc' = "returned"
    /\ UNCHANGED <<store, txn, todo, cur, pos, count, reported, diag, printed, baseline, source>>

\* sqlite3.connect raises: RuntimeError, no connection made
ReportConnectFails ==
    /\ pc = "call"
    /\ result' = [kind |-> "RuntimeError"]
    /\ pc' = "raised"
    /\ UNCHANGED <<ingestVars, diag, messages, opts, activity, clock, queries,
                   printed, baseline, source>>

\* the query raises (e.g. no messages table): the error leaves
\* generate_timesheet through the finally, which closes the connection
ReportQueryFails ==
    /\ pc = "call"
    /\ \E arg \in DateArgs :
          LET cutoff == ResolveCutoff(arg, Now) IN
          /\ cutoff.ok
          /\ clock' = [arg |-> arg, now |-> Now, since_date |-> cutoff.dt]
    /\ result' = [kind |-> "sqlite3.Error"]
    /\ queries' = queries + 1
    /\ conn' = "closed"
    /\ pc' = "raised"
    /\ UNCHANGED <<store, txn, todo, cur, pos, count, reported, diag, messages,
                   opts, activity, printed, baseline, source>>

NextReport == GenerateTimesheet \/ ReportConnectFails \/ ReportQueryFails

SpecReport == InitReport /\ [][NextReport]_vars

(***************************************************************************)
(* Specification SpecCli: the reusable function, then the command-line     *)
(* reporter (generate_timesheet.py main) on the same store and arguments.  *)
(***************************************************************************)
\* print(f"Database: {args.db}")
DatabaseLine ==
    [kind |-> "message", text |-> "Database:", date |-> <<0, 0, 0>>, names |-> <<>>]

\* what main prints on standard output once the rows are fetched
main_output(msgs, since_date, o, now) ==
    IF msgs = <<>> THEN <<NoMessagesSince(since_date), DatabaseLine>>
    ELSE LET act == group_by_15min_chunks(msgs, o.project_filter,
                                          o.exclude_filter, o.group_time)
         IN  IF act = <<>>
             THEN <<NoMessagesMatching(o.project_filter, o.exclude_filter)>>
             ELSE <<format_timesheet(act, since_date, o.project_filter,
                                     o.exclude_filter, o.group_time, now)>>

\* main, run with the arguments of the call before it; the store is the
\* same, so the query returns the same rows in the same order
Main ==
    /\ pc = "returned"
    /\ LET cutoff == ResolveCutoff(clock.arg, clock.now) IN
       IF ~cutoff.ok
       THEN /\ printed' = [status |-> 1, out |-> <<>>]
            /\ diag' = [diag EXCEPT !.errors = @ + 2]
            /\ queries' = queries
       ELSE /\ \E msgs \in QueryResults(store, cutoff.dt) :
                  /\ msgs = messages
                  /\ printed' = [status |-> 0,
                                 out |-> main_output(msgs, cutoff.dt, opts, clock.now)]
            /\ diag' = diag
            /\ queries' = queries + 1
    /\ conn' = "closed"
    /\ pc' = "printed"
    /\ UNCHANGED <<store, txn, todo, cur, pos, count, reported, messages, opts,
                   activity, clock, result, baseline, source>>

NextCli == GenerateTimesheet \/ Main

SpecCli == InitReport /\ [][NextCli]_vars

(***************************************************************************)
(* Ingestion: parse_claude_messages.py.                                    *)
(***************************************************************************)
\* a value of data.get(key): the key absent, null, an empty text or a text
Absent == [state |-> "absent"]
Null == [state |-> "null"]
EmptyText == [state |-> "empty"]
Text(v) == [state |-> "text", value |-> v]

\* Python truthiness of such a value
FieldTruthy(f) == f.state = "text"

\* a line of a source file
BadJson == [kind |-> "bad_json"]          \* json.loads raises JSONDecodeError
NonObject == [kind |-> "non_object"]      \* valid JSON that is no object: [1], 5, null
Undecodable == [kind |-> "undecodable"]   \* reading the line raises (I/O, encoding)
Object(ts, sid) == [kind |-> "object", timestamp |-> ts, sessionId |-> sid]

LineKinds == {BadJson, NonObject, Undecodable,
              Object(Text(TsA), Text("s1")),
              Object(Absent, Text("s1")),
              Object(Text(TsA), EmptyText),
              Object(Null, Null)}

FileName == <<"a", ".", "j", "s", "o", "n", "l">>
\* a file under a project directory, and a bare relative file name
Paths == { <<RawNotes, FileName>>, <<FileName>> }

\* file_path.parent.name
extract_project_name(file_path) ==
    IF Len(file_path) >= 2 THEN file_path[Len(file_path) - 1] ELSE <<>>

\* a variant that inserts when either field is there
has_timestamp_or_session(timestamp, session_id) ==
    FieldTruthy(timestamp) \/ FieldTruthy(session_id)

\* if timestamp and session_id
has_timestamp_and_session(timestamp, session_id) ==
    FieldTruthy(timestamp) /\ FieldTruthy(session_id)

\* the row an INSERT adds; file records which source file it came from
InsertedRow(file, line) ==
    [timestamp |-> IF line.timestamp.state = "text" THEN line.timestamp.value ELSE TsBad,
     session_id |-> IF line.sessionId.state = "text" THEN line.sessionId.value ELSE "",
     project_name |-> extract_project_name(file.path),
     file |-> file.id]

\* a row left by an earlier run
PriorRow == [timestamp |-> TsD, session_id |-> "s0", project_name |-> RawApi, file |-> 0]

Init ==
    /\ store \in {<<>>, <<PriorRow>>}
    /\ txn = <<>> /\ conn = "none" /\ todo = 0
    /\ cur = NoFile /\ pos = 0 /\ count = 0 /\ reported = <<>>
    /\ diag = NoDiag
    /\ pc = "start"
    /\ messages = <<>>
    /\ opts = NoOptions
    /\ activity = <<>>
    /\ clock = NoClock
    /\ result = NoResult
    /\ ReportIdle

\* main without a file argument, the projects directory missing: exit(1)
\* before the store is opened
DirMissing ==
    /\ pc = "start"
    /\ diag' = [diag EXCEPT !.errors = @ + 2]
    /\ pc' = "done"
    /\ UNCHANGED <<ingestVars, reportVars>>

\* init_database: sqlite3.connect raises; main ends with no connection made
InitDatabaseConnectFails ==
    /\ pc = "start"
    /\ diag' = [diag EXCEPT !.errors = @ + 1]
    /\ pc' = "done"
    /\ UNCHANGED <<ingestVars, reportVars>>

\* init_database: the connection is made, then CREATE TABLE / CREATE INDEX or
\* the commit raises (not a database file, read-only, locked); the error
\* leaves init_database and main, whose try/finally is not yet entered
InitDatabaseSchemaFails ==
    /\ pc = "start"
    /\ conn' = "open"
    /\ diag' = [diag EXCEPT !.errors = @ + 1]
    /\ pc' = "done"
    /\ UNCHANGED <<store, txn, todo, cur, pos, count, reported, reportVars>>

\* init_database, then either the single file or the n files the glob finds
Start ==
    /\ pc = "start"
    /\ \E n \in 0..MaxFiles : todo' = n
    /\ conn' = "open"
    /\ pc' = "next"
    /\ UNCHANGED <<store, txn, cur, pos, count, reported, diag, reportVars>>

\* main with a file argument that does not exist: exit(1), the finally closes
FileNotFound ==
    /\ pc = "start"
    /\ conn' = "closed"
    /\ diag' = [diag EXCEPT !.errors = @ + 1]
    /\ pc' = "done"
    /\ UNCHANGED <<store, txn, todo, cur, pos, count, reported, reportVars>>

\* parse_jsonl_file is entered for the next file
OpenFile ==
    /\ pc = "next" /\ todo > 0
    /\ \E path \in Paths :
          cur' = [id |-> Len(reported) + 1, path |-> path, line |-> NoFile.line]
    /\ pos' = 0
    /\ count' = 0
    /\ pc' = "reading"
    /\ UNCHANGED <<store, txn, conn, todo, reported, diag, reportVars>>

\* one iteration of the loop over the file's lines: the file yields its
\* next line, whatever that is
ParseLine ==
    /\ pc = "reading" /\ pos < MaxLines
    /\ \E line \in LineKinds :
       /\ cur' = [cur EXCEPT !.line = line]
       /\ pos' = pos + 1
       /\ \/ /\ line.kind = "bad_json"           \* warned about, continue
             /\ diag' = [diag EXCEPT !.warnings = @ + 1]
             /\ UNCHANGED <<store, txn, conn, todo, count, reported, pc>>
          \/ /\ line.kind = "object"
             /\ IF has_timestamp_and_session(line.timestamp, line.sessionId)
                THEN /\ txn' = Append(txn, InsertedRow(cur, line))
                     /\ count' = count + 1
                ELSE UNCHANGED <<txn, count>>
             /\ UNCHANGED <<store, conn, todo, reported, diag, pc>>
          \/ /\ line.kind \in {"non_object", "undecodable"}
             \* AttributeError on data.get, or the read raising: caught by the
             \* outer except, which returns count without a commit
             /\ diag' = [diag EXCEPT !.errors = @ + 1]
             /\ reported' = Append(reported, [file |-> cur.id, count |-> count])
             /\ todo' = todo - 1
             /\ pc' = "next"
             /\ UNCHANGED <<store, txn, conn, count>>
    /\ UNCHANGED reportVars

\* a variant that keeps the rows of the table unique
CommittedUnique(table, rows) ==
    table \o SelectSeq(rows, LAMBDA r : \A k \in 1..Len(table) : table[k] # r)

\* the table once the pending INSERTs are committed: appended in order
Committed(table, rows) == table \o rows

\* the loop ends: conn.commit() and return count
EndOfFile ==
    /\ pc = "reading"
    /\ store' = Committed(store, txn)
    /\ txn' = <<>>
    /\ reported' = Append(reported, [file |-> cur.id, count |-> count])
    /\ todo' = todo - 1
    /\ pc' = "next"
    /\ UNCHANGED <<conn, cur, pos, count, diag, reportVars>>

\* main's finally: conn.close(), which discards what was not committed
Close ==
    /\ pc = "next" /\ todo = 0
    /\ conn' = "closed"
    /\ txn' = <<>>
    /\ pc' = "done"
    /\ UNCHANGED <<store, todo, cur, pos, count, reported, diag, reportVars>>

Next == DirMissing \/ InitDatabaseConnectFails \/ InitDatabaseSchemaFails
        \/ Start \/ FileNotFound \/ OpenFile \/ ParseLine \/ EndOfFile \/ Close

Spec == Init /\ [][Next]_vars

(***************************************************************************)
(* Specification SpecReingest: one source file is ingested, again and      *)
(* again, each run completing and committing; between runs the report is   *)
(* generated with one fixed cutoff argument, filters and merge flag.       *)
(***************************************************************************)
\* lines of a source file that let the run complete
SourceLines == {Object(Text(TsA), Text("s1")), Object(Text(TsC), Text("s1")),
                Object(Text(TsBad), Text("s1"))}

SourcePath == <<RawNotes, FileName>>

ReingestArgs == {None, Some(<<"1">>)}

ReingestOptions ==
    {[project_filter |-> None, exclude_filter |-> None, group_time |-> FALSE],
     [project_filter |-> None, exclude_filter |-> None, group_time |-> TRUE],
     [project_filter |-> Some(PatUsers), exclude_filter |-> Some(PatCode),
      group_time |-> FALSE],
     [project_filter |-> None, exclude_filter |-> Some(PatNotesUpper),
      group_time |-> TRUE]}

\* the rows parse_jsonl_file inserts for the lines of a file it reads to the end
RECURSIVE InsertedRows(_, _)
InsertedRows(file, lines) ==
    IF lines = <<>> THEN <<>>
    ELSE LET line == Head(lines) IN
         (IF line.kind = "object"
             /\ has_timestamp_and_session(line.timestamp, line.sessionId)
          THEN <<InsertedRow(file, line)>> ELSE <<>>)
         \o InsertedRows(file, Tail(lines))

InitReingest ==
    /\ store \in {<<>>, <<PriorRow>>}
    /\ txn = <<>> /\ conn = "none" /\ todo = 0
    /\ cur = NoFile /\ pos = 0 /\ count = 0 /\ reported = <<>>
    /\ diag = NoDiag
    /\ pc = "start"
    /\ messages = <<>>
    /\ opts \in ReingestOptions
    /\ activity = <<>>
    /\ \E arg \in ReingestArgs :
          clock = [arg |-> arg, now |-> Now, since_date |-> ResolveCutoff(arg, Now).dt]
    /\ result = NoResult
    /\ queries = 0 /\ printed = NoPrinted /\ baseline = NoBaseline
    /\ source \in {[path |-> SourcePath, lines |-> ls] : ls \in SeqUpTo(SourceLines, MaxLines)}

\* python parse_claude_messages.py <source>: the whole run, which reads the
\* file to its end, commits and closes
IngestSource ==
    /\ pc \in {"start", "ingested", "reported"}
    /\ Len(reported) <= MaxRuns
    /\ LET file == [id |-> 1, path |-> source.path, line |-> NoFile.line]
           rows == InsertedRows(file, source.lines)
       IN  /\ store' = Committed(store, rows)
           /\ count' = Len(rows)
           /\ reported' = Append(reported, [file |-> 1, count |-> Len(rows)])
           /\ cur' = file
    /\ pos' = Len(source.lines)
    /\ conn' = "closed"
    /\ pc' = "ingested"
    /\ UNCHANGED <<txn, todo, diag, reportVars>>

\* generate_timesheet with the fixed arguments, on the store as it is now;
\* the first report is kept as the baseline
ReportStore ==
    /\ pc = "ingested"
    /\ \E msgs \in QueryResults(store, clock.since_date) :
       \E out \in {generate_timesheet(msgs, clock.since_date, opts, clock.now)} :
          /\ messages' = msgs
          /\ activity' = out.activity
          /\ result' = out.result
          /\ baseline' = IF baseline = NoBaseline
                          THEN [activity |-> out.activity, result |-> out.result,
                                runs |-> Len(reported)]
                          ELSE baseline
    /\ queries' = queries + 1
    /\ conn' = "closed"
    /\ pc' = "reported"
    /\ UNCHANGED <<store, txn, todo, cur, pos, count, reported, diag, opts, clock,
                   printed, source>>

NextReingest == IngestSource \/ ReportStore

SpecReingest == InitReingest /\ [][NextReingest]_vars

(***************************************************************************)
(* Vocabulary of the properties.                                           *)
(***************************************************************************)
Parseable(msg) == msg.timestamp.kind = "iso"

\* the 15-minute window a wall-clock time falls in: the quarter-hour mark at
\* or before it, on the same day and hour
WindowOf(ts) ==
    [day |-> ts.day, hour |-> ts.hour,
     minute |-> CHOOSE q \in {0, 15, 30, 45} : q <= ts.minute /\ ts.minute < q + 15,
     second |-> 0, microsecond |-> 0]

\* the (day, display name, window) triples hit by the parseable rows of a list
Hits(msgs) ==
    {<<Calendar[msgs[i].timestamp.day], DisplayName[msgs[i].project_name],
       WindowOf(msgs[i].timestamp)>> : i \in {k \in 1..Len(msgs) : Parseable(msgs[k])}}

\* an activity map as a set of (day, project, bucket) triples
Flat(act) ==
    UNION {UNION {{<<act[i].date, act[i].projects[j].project, b>>
                   : b \in act[i].projects[j].blocks}
                  : j \in 1..Len(act[i].projects)}
           : i \in 1..Len(act)}

\* an activity map as a mapping, whatever the insertion order of its keys
AsMap(act) ==
    UNION {{<<act[i].date, act[i].projects[j].project, act[i].projects[j].blocks>>
            : j \in 1..Len(act[i].projects)}
           : i \in 1..Len(act)}

\* every day and every project of a day is one key
UniqueKeys(act) ==
    /\ \A i, k \in 1..Len(act) : act[i].date = act[k].date => i = k
    /\ \A i \in 1..Len(act) : \A j, k \in 1..Len(act[i].projects) :
          act[i].projects[j].project = act[i].projects[k].project => j = k

\* the list with row r inserted after its first k rows
InsertAt(msgs, k, r) == SubSeq(msgs, 1, k) \o <<r>> \o SubSeq(msgs, k + 1, Len(msgs))

Unfiltered(o) ==
    ~o.project_filter.given /\ ~o.exclude_filter.given /\ ~o.group_time

Given(pattern) == pattern.given /\ pattern.text # <<>>

\* the retention rule of the filter pass, on a display name
Retained(name, o) ==
    /\ (~Given(o.project_filter)
        \/ FnMatchCase(Lower(name), Lower(o.project_filter.text)))
    /\ (~Given(o.exclude_filter)
        \/ ~FnMatchCase(Lower(name), Lower(o.exclude_filter.text)))

RetainedOn == [n \in DisplayNames, fp \in FilterPairs |->
                 Retained(n, [project_filter |-> fp[1], exclude_filter |-> fp[2]])]

\* the hits of the projects the filters retain
RetainedHits(msgs, o) ==
    {h \in Hits(msgs) : RetainedOn[h[2], <<o.project_filter, o.exclude_filter>>]}

\* the ascending arrangement of a set of names
Ascending(names) ==
    CHOOSE seq \in [1..Cardinality(names) -> names] :
        \A i, k \in 1..Cardinality(names) : i < k => StrLess(seq[i], seq[k])

(***************************************************************************)
(* C2: with merge mode on, every day with at least one project surviving   *)
(* the filters has exactly one entry; its bucket set is the union of the   *)
(* surviving projects' bucket sets (a shared bucket counted once, a        *)
(* quarter of an hour each) and its name is "Combined: " followed by the   *)
(* surviving display names in ascending order joined with ", "; days       *)
(* without a surviving project and filtered-out projects contribute        *)
(* nothing.                                                                *)
(***************************************************************************)
C2_MergeUnion ==
    (pc = "grouped" /\ opts.group_time) =>
        LET hits == RetainedHits(messages, opts)
            days == {h[1] : h \in hits}
            namesOn(d) == {h[2] : h \in {x \in hits : x[1] = d}}
            blocksOn(d) == {h[3] : h \in {x \in hits : x[1] = d}}
        IN  /\ UniqueKeys(activity)
            /\ {activity[i].date : i \in 1..Len(activity)} = days
            /\ \A i \in 1..Len(activity) :
                  LET d == activity[i].date IN
                  /\ Len(activity[i].projects) = 1
                  /\ activity[i].projects[1].blocks = blocksOn(d)
                  /\ activity[i].projects[1].project =
                        CombinedPrefix \o Join(Ascending(namesOn(d)))
                  /\ calculate_hours(activity[i].projects[1].blocks) =
                        25 * Cardinality(blocksOn(d))

\* a merged day of two surviving projects that share a bucket, the later name
\* in the order inserted first, and a filtered-out project-day elsewhere
C2_Witness ==
    /\ pc = "grouped" /\ opts.group_time
    /\ \E d \in {h[1] : h \in RetainedHits(messages, opts)} :
          LET on == {h \in RetainedHits(messages, opts) : h[1] = d} IN
          /\ Cardinality({h[2] : h \in on}) = 2
          /\ Cardinality({h[3] : h \in on}) < Cardinality(on)
          /\ \E i \in 1..Len(activity) :
                /\ activity[i].date = d
                /\ calculate_hours(activity[i].projects[1].blocks) = 50
    /\ Parseable(messages[1])
    /\ \E n \in DisplayNames : StrLess(n, DisplayName[messages[1].project_name])

(***************************************************************************)
(* C3: in the filter pass a project is retained on a day, by its display   *)
(* name, if and only if (no include pattern is given or the lower-cased    *)
(* name matches the lower-cased include glob in full) and (no exclude      *)
(* pattern is given or the lower-cased name does not match the lower-cased *)
(* exclude glob); a name matching both is excluded, and a retained project *)
(* keeps exactly the bucket set of the bucketing pass.                     *)
(***************************************************************************)
C3_FilterRetention ==
    (pc = "grouped" /\ ~opts.group_time) =>
        /\ UniqueKeys(activity)
        /\ Flat(activity) = RetainedHits(messages, opts)
        /\ \A i \in 1..Len(activity) :
              /\ activity[i].projects # <<>>
              /\ \A j \in 1..Len(activity[i].projects) :
                    activity[i].projects[j].blocks # {}

\* a project matching both patterns is dropped while another one is retained
C3_Witness ==
    /\ pc = "grouped" /\ ~opts.group_time
    /\ Given(opts.project_filter) /\ Given(opts.exclude_filter)
    /\ \E h \in Hits(messages) :
          /\ FnMatchCase(Lower(h[2]), Lower(opts.project_filter.text))
          /\ FnMatchCase(Lower(h[2]), Lower(opts.exclude_filter.text))
          /\ h \notin Flat(activity)
    /\ Flat(activity) # {}


(***************************************************************************)
(* C6: the raw identifier "-Users-pdenya-Code-myproj-api" is shown as      *)
(* "myproj/api" and "-Users-pdenya-notes" as "~/notes": every grouped,     *)
(* readable row of either identifier has its bucket under that display     *)
(* name on its day.                                                        *)
(***************************************************************************)
C6_DisplayNames ==
    (pc = "grouped" /\ Unfiltered(opts)) =>
        \A i \in 1..Len(messages) :
           LET msg == messages[i] IN
           /\ (Parseable(msg) /\ msg.project_name = RawApi) =>
                 <<Calendar[msg.timestamp.day],
                   <<"m","y","p","r","o","j","/","a","p","i">>,
                   WindowOf(msg.timestamp)>> \in Flat(activity)
           /\ (Parseable(msg) /\ msg.project_name = RawNotes) =>
                 <<Calendar[msg.timestamp.day],
                   <<"~","/","n","o","t","e","s">>,
                   WindowOf(msg.timestamp)>> \in Flat(activity)


\* the patterns that are set, as the empty-state message names them
NamedPatterns(o) ==
    (IF Given(o.project_filter)
        THEN <<[label |-> "filter", text |-> o.project_filter.text]>> ELSE <<>>)
    \o (IF Given(o.exclude_filter)
        THEN <<[label |-> "exclude", text |-> o.exclude_filter.text]>> ELSE <<>>)

Answered == pc = "returned" /\ result.kind \in {"report", "message"}

\* a report body: a header, at least one day section, each with at least one
\* project line of at least one bucket, and the grand total
ReportBody(r) ==
    /\ r.kind = "report"
    /\ r.range.kind \in {"TODAY", "LAST N DAYS", "SINCE"}
    /\ r.sections # <<>>
    /\ \A i \in 1..Len(r.sections) :
          /\ r.sections[i].lines # <<>>
          /\ \A j \in 1..Len(r.sections[i].lines) : r.sections[i].lines[j].hours >= 25
    /\ r.grand_total >= 25

\* the fetched rows are the rows of the store at or after the cutoff: for a
\* readable timestamp, by its wall-clock time
FetchedAtOrAfterCutoff ==
    /\ \A i \in 1..Len(store) :
          store[i].timestamp.kind = "iso" =>
             ((\E k \in 1..Len(messages) : messages[k] = Columns(store[i]))
                <=> SecondsOf(store[i].timestamp) >= SecondsOf(clock.since_date))
    /\ \A k \in 1..Len(messages) : \E i \in 1..Len(store) : messages[k] = Columns(store[i])

(***************************************************************************)
(* C4 as stated: a report body is returned only when a project-day with a  *)
(* bucket survives; otherwise (no rows at or after the cutoff, or nothing  *)
(* left after filtering) the short message is returned, naming the include *)
(* and/or exclude patterns that are set.                                   *)
(***************************************************************************)
C4_MessageNamesPatterns ==
    Answered =>
        /\ FetchedAtOrAfterCutoff
        /\ IF RetainedHits(messages, opts) # {}
           THEN ReportBody(result)
           ELSE result.kind = "message" /\ result.names = NamedPatterns(opts)

(***************************************************************************)
(* C4, amended: a report body is returned exactly when a project-day with  *)
(* a bucket survives bucketing and filtering.  If the query returns no row *)
(* at or after the cutoff the message is "No messages found since <cutoff  *)
(* date>", which names no pattern; if rows were fetched and nothing is     *)
(* left after filtering (every timestamp unreadable included) the message  *)
(* names the include and/or exclude patterns that are set, or is "No       *)
(* messages found." when none is.  A report never has zero day sections.   *)
(***************************************************************************)
C4_ReportOrMessage ==
    Answered =>
        /\ FetchedAtOrAfterCutoff
        /\ IF RetainedHits(messages, opts) # {}
           THEN ReportBody(result)
           ELSE IF messages = <<>>
           THEN /\ result.kind = "message"
                /\ result.text = "No messages found since"
                /\ result.date = Calendar[clock.since_date.day]
                /\ result.names = <<>>
           ELSE /\ result.kind = "message"
                /\ result.names = NamedPatterns(opts)
                /\ result.text = IF NamedPatterns(opts) = <<>>
                                 THEN "No messages found."
                                 ELSE "No messages found matching"

\* rows were fetched and bucketed, and both patterns are named because the
\* filters left nothing
C4_Witness ==
    /\ Answered
    /\ Hits(messages) # {}
    /\ RetainedHits(messages, opts) = {}
    /\ result.kind = "message"
    /\ Len(result.names) = 2
    /\ \E i \in 1..Len(store) : \A k \in 1..Len(messages) : messages[k] # Columns(store[i])

\* the calendar ordinal of a '%Y-%m-%d' text
OrdinalOf(date_str) == CHOOSE d \in 1..Len(Calendar) : Calendar[d] = date_str

\* where a project was inserted in the day's map
InsertedAt(act, date_str, project) ==
    ProjectIndex(act[DateIndex(act, date_str)].projects, project)

(***************************************************************************)
(* C5: the day sections are in strictly descending calendar order, one per *)
(* day of the activity map; within a day the lines are the day's projects  *)
(* with hours of a quarter per bucket, in non-increasing order of hours,   *)
(* projects of equal hours in their insertion order.                       *)
(***************************************************************************)
C5_ReportOrder ==
    (pc = "returned" /\ result.kind = "report") =>
        LET secs == result.sections IN
        /\ \A i, k \in 1..Len(secs) :
              i < k => OrdinalOf(secs[i].date) > OrdinalOf(secs[k].date)
        /\ {secs[i].date : i \in 1..Len(secs)}
              = {activity[i].date : i \in 1..Len(activity)}
        /\ \A i \in 1..Len(secs) :
              LET lines == secs[i].lines
                  projects == activity[DateIndex(activity, secs[i].date)].projects
              IN  /\ Len(lines) = Len(projects)
                  /\ \A j \in 1..Len(projects) : \E n \in 1..Len(lines) :
                        /\ lines[n].project = projects[j].project
                        /\ lines[n].hours = 25 * Cardinality(projects[j].blocks)
                  /\ \A a, b \in 1..Len(lines) : a < b =>
                        \/ lines[a].hours > lines[b].hours
                        \/ /\ lines[a].hours = lines[b].hours
                           /\ InsertedAt(activity, secs[i].date, lines[a].project)
                                < InsertedAt(activity, secs[i].date, lines[b].project)

\* two day sections, the later day inserted last, and a day with two
\* projects of equal hours
C5_Witness ==
    /\ pc = "returned" /\ result.kind = "report"
    /\ Len(result.sections) = 2
    /\ activity[1].date # result.sections[1].date
    /\ \E i \in 1..2 :
          /\ Len(result.sections[i].lines) = 2
          /\ result.sections[i].lines[1].hours = result.sections[i].lines[2].hours

\* seconds from the cutoff to now
Elapsed == SecondsOf(clock.now) - SecondsOf(clock.since_date)

\* the header suffixes of the options that are set, in the order include,
\* exclude, merge
ExpectedSuffixes(o) ==
    (IF Given(o.project_filter)
        THEN <<[label |-> "FILTER", text |-> o.project_filter.text]>> ELSE <<>>)
    \o (IF Given(o.exclude_filter)
        THEN <<[label |-> "EXCLUDE", text |-> o.exclude_filter.text]>> ELSE <<>>)
    \o (IF o.group_time THEN <<[label |-> "GROUPED TIME", text |-> <<>>]>> ELSE <<>>)

(***************************************************************************)
(* C10 as stated: the range text is "TODAY" if the cutoff is at most one   *)
(* day before now, "LAST N DAYS" if it is more than one and at most seven  *)
(* days before now, "SINCE <date>" otherwise, followed by the suffixes of  *)
(* the options that are set, in the order include, exclude, merge.         *)
(***************************************************************************)
C10_RangeByElapsedTime ==
    (pc = "returned" /\ result.kind = "report") =>
        /\ result.range.kind =
              (IF Elapsed <= 86400 THEN "TODAY"
               ELSE IF Elapsed <= 7 * 86400 THEN "LAST N DAYS"
               ELSE "SINCE")
        /\ result.suffixes = ExpectedSuffixes(opts)

(***************************************************************************)
(* C10, amended: with N the number of whole days from the cutoff to now    *)
(* (rounded down), the range text is "TODAY" if N is at most 1 (the cutoff *)
(* is less than two days before now), "LAST N DAYS" if N is 2 to 7 (less   *)
(* than eight days), "SINCE <date of the cutoff>" otherwise, followed by   *)
(* the suffixes of the options that are set, in the order include,         *)
(* exclude, merge.                                                         *)
(***************************************************************************)
C10_RangeByWholeDays ==
    (pc = "returned" /\ result.kind = "report") =>
        /\ Elapsed < 2 * 86400 => result.range.kind = "TODAY"
        /\ (2 * 86400 <= Elapsed /\ Elapsed < 8 * 86400) =>
              /\ result.range.kind = "LAST N DAYS"
              /\ result.range.days * 86400 <= Elapsed
              /\ Elapsed < (result.range.days + 1) * 86400
        /\ 8 * 86400 <= Elapsed =>
              /\ result.range.kind = "SINCE"
              /\ result.range.date = Calendar[clock.since_date.day]
        /\ result.suffixes = ExpectedSuffixes(opts)

\* a report headed "TODAY" for a cutoff more than a day before now, with all
\* three suffixes
C10_Witness ==
    /\ pc = "returned" /\ result.kind = "report"
    /\ Elapsed > 86400
    /\ result.range.kind = "TODAY"
    /\ Len(result.suffixes) = 3


(***************************************************************************)
(* Ingestion claims.                                                       *)
(***************************************************************************)
\* number of rows of a table that came from source file f
RowsOf(f, rows) == Cardinality({k \in 1..Len(rows) : rows[k].file = f})

\* a line that cannot be parsed as a single JSON object
Unparseable(l) == l.kind \in {"bad_json", "non_object"}

\* a parsed object carrying a timestamp and a session id, present and non-empty
EligibleLine(l) ==
    /\ l.kind = "object"
    /\ l.timestamp \notin {Absent, Null, EmptyText}
    /\ l.sessionId \notin {Absent, Null, EmptyText}

\* the name of the directory that directly contains the file
ParentDirectory(path) ==
    LET dirs == SubSeq(path, 1, Len(path) - 1)
    IN  IF dirs = <<>> THEN <<>> ELSE dirs[Len(dirs)]

\* C7: once the command has finished and closed its connection, the count
\* returned and reported for every source file equals the number of rows
\* from that file present in the store, whatever the outcome of reading it.
C7_ReportedCountIsDurable ==
    pc = "done" =>
        \A k \in 1..Len(reported) :
            reported[k].count = RowsOf(reported[k].file, store)

\* C8: reading a line that cannot be parsed as a single JSON object writes
\* a diagnostic, inserts and counts nothing, and does not abort the file:
\* parse_jsonl_file goes on to the lines that follow, so that the eligible
\* ones among them are inserted and counted.
C8_UnparseableLineDoesNotAbort ==
    [][(/\ pc = "reading"
        /\ pos' = pos + 1
        /\ Unparseable(cur'.line))
       => /\ pc' = "reading"
          /\ diag'.warnings + diag'.errors = diag.warnings + diag.errors + 1
          /\ txn' = txn /\ store' = store /\ count' = count
          /\ reported' = reported]_vars

\* C9: the step for a parsed object inserts if and only if both the
\* timestamp and the session id are present and non-empty; otherwise nothing
\* is inserted or counted; no diagnostic is written either way; an insert
\* appends exactly one row, carrying the file's parent directory name, and
\* leaves every existing row (committed or pending, duplicates included)
\* as it was.
C9_InsertIffEligible ==
    [][(/\ pc = "reading"
        /\ pos' = pos + 1
        /\ cur'.line.kind = "object")
       => LET line == cur'.line IN
          /\ store' = store
          /\ diag' = diag
          /\ pc' = "reading"
          /\ IF EligibleLine(line)
             THEN /\ Len(txn') = Len(txn) + 1
                  /\ SubSeq(txn', 1, Len(txn)) = txn
                  /\ txn'[Len(txn')].project_name = ParentDirectory(cur.path)
                  /\ txn'[Len(txn')].timestamp = line.timestamp.value
                  /\ txn'[Len(txn')].session_id = line.sessionId.value
                  /\ count' = count + 1
             ELSE /\ txn' = txn
                  /\ count' = count]_vars

\* three lines were read without a diagnostic: one object was skipped and
\* two equal eligible objects were each inserted, next to a row of an
\* earlier run
C9_Witness ==
    /\ pc = "reading" /\ pos = 3
    /\ cur.path = <<RawNotes, FileName>>
    /\ cur.line = Object(Text(TsA), Text("s1"))
    /\ store = <<PriorRow>>
    /\ Len(txn) = 2 /\ txn[1] = txn[2] /\ txn[1].project_name = RawNotes
    /\ count = 2
    /\ diag = NoDiag

(***************************************************************************)
(* Cutoff argument.                                                        *)
(***************************************************************************)
\* the year, month and day an 8-character text of digits spells
YmdOf(t) == <<Num(SubSeq(t, 1, 4)), Num(SubSeq(t, 5, 6)), Num(SubSeq(t, 7, 8))>>

\* an 8-digit calendar date
EightDigitDate(t) ==
    /\ Len(t) = 8 /\ AllDigits(t)
    /\ \E d \in 1..Len(Calendar) : Calendar[d] = YmdOf(t)

\* C11: an 8-digit calendar date resolves to midnight of that date, any
\* other plain integer N to now minus N days, an omitted argument to now
\* minus 7 days; any other input is rejected with ValueError, no store query
\* is made and no report is produced.
C11_CutoffResolution ==
    pc = "returned" =>
        LET a == clock.arg IN
        IF ~a.given
        THEN /\ result.kind # "ValueError"
             /\ clock.since_date = [clock.now EXCEPT !.day = @ - 7]
        ELSE IF EightDigitDate(a.text)
        THEN /\ result.kind # "ValueError"
             /\ clock.since_date =
                  Midnight(CHOOSE d \in 1..Len(Calendar) : Calendar[d] = YmdOf(a.text))
        ELSE IF AllDigits(a.text)
        THEN /\ result.kind # "ValueError"
             /\ clock.since_date = [clock.now EXCEPT !.day = @ - Num(a.text)]
        ELSE /\ result.kind = "ValueError"
             /\ queries = 0
             /\ activity = <<>>


(***************************************************************************)
(* Store connection.                                                       *)
(***************************************************************************)
\* the running command has ended, normally or by an error
Ended == pc \in {"done", "returned", "raised", "printed"}

\* C12: every store connection a command opens is closed on every exit path
\* of the command, error paths included: no command ends with its
\* connection open.
C12_ConnectionClosedOnExit == Ended => conn # "open"


(***************************************************************************)
(* Command-line reporter against the reusable function.                    *)
(***************************************************************************)
\* C13: for the same store, cutoff argument, patterns and merge flag, what
\* the command-line reporter prints is the text generate_timesheet returns,
\* in every outcome: report, no rows since the cutoff, nothing left after
\* filtering.
C13_PrintedIsReturned ==
    (pc = "printed" /\ result.kind \in {"report", "message"}) =>
        printed.out = <<result>>


(***************************************************************************)
(* Re-ingestion.                                                           *)
(***************************************************************************)
\* the per-project hours of a result, by day and project
ProjectHours(r) ==
    IF r.kind # "report" THEN {}
    ELSE UNION {{<<r.sections[i].date, r.sections[i].lines[j].project,
                   r.sections[i].lines[j].hours>> : j \in 1..Len(r.sections[i].lines)}
                : i \in 1..Len(r.sections)}

\* the daily totals of a result, by day
DailyTotals(r) ==
    IF r.kind # "report" THEN {}
    ELSE {<<r.sections[i].date, r.sections[i].day_total>> : i \in 1..Len(r.sections)}

\* the grand total of a result
GrandTotal(r) == IF r.kind # "report" THEN 0 ELSE r.grand_total

\* C14: every further ingestion of the same source file appends its rows
\* once more, and the report generated afterwards with the same cutoff,
\* filters and merge flag has the activity map, the per-project hours, the
\* daily totals and the grand total of the report generated before.
C14_ReingestionKeepsReport ==
    (pc = "reported" /\ baseline.runs >= 1 /\ Len(reported) > baseline.runs) =>
        /\ RowsOf(1, store) = Len(reported) * reported[1].count
        /\ AsMap(activity) = AsMap(baseline.activity)
        /\ result.kind = baseline.result.kind
        /\ ProjectHours(result) = ProjectHours(baseline.result)
        /\ DailyTotals(result) = DailyTotals(baseline.result)
        /\ GrandTotal(result) = GrandTotal(baseline.result)

\* a file of three eligible lines in two windows, reported after its first
\* ingestion and again after its third, next to a row of an earlier run
C14_Witness ==
    /\ pc = "reported" /\ baseline.runs = 1 /\ Len(reported) = 3
    /\ reported[1].count = 3
    /\ Len(store) = 10
    /\ result.kind = "report" /\ result.grand_total = 75
    /\ Cardinality(AsMap(activity)) = 2

=============================================================================
